---------------------------- MODULE Spec2Model ----------------------------
(***************************************************************************)
(* A model of otp-session-lib: the expiring key-value store (db.rs) and    *)
(* the two issuers built on it (otp.rs, session.rs).                       *)
(*                                                                         *)
(* Strings are sequences of one-character strings, so that the key         *)
(* format!("{}:{}", code, user) is a real concatenation.  The HashMap      *)
(* <String, u64> is a function from key strings to expiration seconds.     *)
(* SystemTime::now() is the variable now, advanced by Tick: the clock only *)
(* moves forward.  Lifetimes and clock readings stay far below 2^64, so    *)
(* now + keep_alive never wraps.  A caller builds one object (a DataStore, *)
(* an Otp or a Session) and then calls its pub fns one at a time.          *)
(***************************************************************************)
EXTENDS Integers, Sequences, FiniteSets, TLC

VARIABLES
    made,       \* the objects the caller has constructed, among "store", "otp", "session"
    store,      \* a stand-alone DataStore (as the tests of db.rs build one): its db map
    otp,        \* the Otp issuer: [keep_alive, db]
    session,    \* the Session issuer: [keep_alive, db]
    now,        \* SystemTime::now() in seconds since UNIX_EPOCH
    ticks,      \* number of clock steps taken so far (bounded by MaxTicks)
    call,       \* the last call made: [on, op, code, user, keep_alive]
    ret,        \* what that call returned
    prior,      \* history: the entry under that call's key before the call
    origin      \* history: for each store and key, the item last put under that key

vars == <<made, store, otp, session, now, ticks, call, ret, prior, origin>>

----------------------------------------------------------------------------
(* Program constants *)

OTP_TIMEOUT == 300

SESSION_TIMEOUT == 14000

(* Bounds of the model *)

MaxEntries == 2

MaxTicks == 2

MaxUserLen == 3

----------------------------------------------------------------------------
(* Strings and number formatting *)

DecDigits == <<"0", "1", "2", "3", "4", "5", "6", "7", "8", "9">>

HexDigits == <<"0", "1", "2", "3", "4", "5", "6", "7", "8", "9",
               "a", "b", "c", "d", "e", "f">>

\* format!("{}", n) for a u64 n: decimal, no padding
RECURSIVE ToDecimal(_)
ToDecimal(n) ==
    IF n < 10 THEN <<DecDigits[n + 1]>>
    ELSE ToDecimal(n \div 10) \o <<DecDigits[(n % 10) + 1]>>

\* A u64 beyond 2^31 is held as two limbs <<hi, lo>> of value hi * 10^6 + lo.
Limb == 10 ^ 6

\* format!("{:x}", n) for a u64 n = <<hi, lo>>: lowercase hexadecimal, no padding
RECURSIVE ToHex(_)
ToHex(n) ==
    LET hi == n[1]
        lo == n[2]
        r  == (hi % 16) * Limb + lo
        q  == <<hi \div 16, r \div 16>>
        d  == r % 16
    IN  IF hi = 0 /\ lo < 16 THEN <<HexDigits[lo + 1]>>
        ELSE ToHex(q) \o <<HexDigits[d + 1]>>

----------------------------------------------------------------------------
(* db.rs *)

None == [tag |-> "None"]

Some(v) == [tag |-> "Some", val |-> v]

Ok(v) == [tag |-> "Ok", val |-> v]

Bool(b) == [tag |-> "bool", val |-> b]

Usize(n) == [tag |-> "usize", val |-> n]

String(v) == [tag |-> "String", val |-> v]

EmptyMap == [k \in {} |-> 0]

\* SessionItem::new, with the clock reading passed in
SessionItem_new(code, user, keep_alive, clock) ==
    [code |-> code, user |-> user, expires |-> clock + keep_alive]

\* faulty variant: a record outlives the instant it expires at
has_expired_lt(item, clock) == item.expires < clock

\* SessionItem::has_expired
has_expired(item, clock) == item.expires <= clock

\* DataStore::create
DataStore_create == EmptyMap

\* faulty variant: the user is left out of the key
create_key_code_only(code, user) == code \o <<":">>

\* DataStore::create_key
create_key(code, user) == code \o <<":">> \o user

\* faulty variant: only the entries that have not expired are counted
dbsize_live(db, clock) == Cardinality({k \in DOMAIN db : db[k] > clock})

\* DataStore::dbsize (the clock is not read: the parameter only lets a variant read it)
dbsize(db, clock) == Cardinality(DOMAIN db)

\* faulty variant: an entry already under the key is kept
put_keep_old(db, item) ==
    LET key == create_key(item.code, item.user)
    IN  [k \in DOMAIN db \cup {key} |->
            IF k \in DOMAIN db THEN db[k] ELSE item.expires]

\* DataStore::put: the map after the insert
put(db, item) ==
    LET key == create_key(item.code, item.user)
    IN  [k \in DOMAIN db \cup {key} |-> IF k = key THEN item.expires ELSE db[k]]

\* faulty variant: the expiration is not looked at
get_no_expiry_check(db, code, user, clock) ==
    LET key == create_key(code, user)
    IN  IF key \in DOMAIN db
        THEN Some([code |-> code, user |-> user, expires |-> db[key]])
        ELSE None

\* DataStore::get: the value returned
get(db, code, user, clock) ==
    LET key == create_key(code, user)
    IN  IF key \notin DOMAIN db THEN None
        ELSE LET item == [code |-> code, user |-> user, expires |-> db[key]]
             IN  IF has_expired(item, clock) THEN None ELSE Some(item)

\* faulty variant: a read that finds a live entry uses it up
get_after_consume(db, code, user, clock) ==
    IF get(db, code, user, clock).tag = "Some"
    THEN [k \in DOMAIN db \ {create_key(code, user)} |-> db[k]]
    ELSE db

\* DataStore::get takes &self: the map after the call is the map before it
get_after(db, code, user, clock) == db

\* faulty variant: removing an expired entry reports false
remove_ret_live(db, code, user, clock) ==
    LET key == create_key(code, user)
    IN  key \in DOMAIN db /\ db[key] > clock

\* DataStore::remove: the value returned (the clock is not read)
remove_ret(db, code, user, clock) == create_key(code, user) \in DOMAIN db

\* faulty variant: every entry of the code goes, whoever the user
remove_after_by_code(db, code, user) ==
    [k \in {k \in DOMAIN db :
              Len(k) < Len(code) \/ SubSeq(k, 1, Len(code)) # code} |-> db[k]]

\* DataStore::remove: the map after the call
remove_after(db, code, user) ==
    [k \in DOMAIN db \ {create_key(code, user)} |-> db[k]]

----------------------------------------------------------------------------
(* otp.rs, session.rs: construction and code generation *)

OTP_RANGE_START == 100000

OTP_RANGE_END == 1000000

\* fastrand::u64(100_000..1_000_000): the values the model draws
OtpDraws == {OTP_RANGE_START, OTP_RANGE_END - 1}

\* the two calls of fastrand::u64(1_000_000_000_000..10_000_000_000_000): the
\* pairs of values the model draws, as limbs: 10^12 twice, or 10^13 - 1 twice
SessionDraws == {<<<<10 ^ 6, 0>>, <<10 ^ 6, 0>>>>,
                 <<<<10 ^ 7 - 1, Limb - 1>>, <<10 ^ 7 - 1, Limb - 1>>>>}

\* faulty variant: the draw is taken from 0..900_000
Otp_generate_code_zero_based(n) == ToDecimal(n - OTP_RANGE_START)

\* Otp::generate_code, for the value drawn
Otp_generate_code(n) == ToDecimal(n)

\* Session::generate_code, for the two values drawn
Session_generate_code(m, n) == ToHex(m) \o ToHex(n)

\* Otp::new
Otp_new == [keep_alive |-> OTP_TIMEOUT, db |-> DataStore_create]

\* faulty variant: the session is given the lifetime of an OTP
Session_new_otp_timeout == [keep_alive |-> OTP_TIMEOUT, db |-> DataStore_create]

\* Session::new
Session_new == [keep_alive |-> SESSION_TIMEOUT, db |-> DataStore_create]

----------------------------------------------------------------------------
(* The callers' inputs *)

Users == {<<"b">>, <<"a", ":", "b">>}

OtpCodes == {Otp_generate_code(n) : n \in OtpDraws}

SessionCodes == {Session_generate_code(p[1], p[2]) : p \in SessionDraws}

\* code arguments of is_valid / remove: the codes an issuer can return, and
\* each of them followed by ":a"
WithColon(codes) == codes \cup {c \o <<":", "a">> : c \in codes}

\* code arguments given to the stand-alone store
StoreCodes == WithColon({<<"1">>})

KeepAlives == {0, 60}

Stores == {"store", "otp", "session"}

Issuers == {"otp", "session"}

\* clock steps: one second, and one second less than a lifetime in use
ClockSteps ==
    {1} \cup {59 : s \in made \cap {"store"}}
        \cup {otp.keep_alive - 1 : s \in made \cap {"otp"}}
        \cup {session.keep_alive - 1 : s \in made \cap {"session"}}

\* the map of the store named s
Db(s) == IF s = "store" THEN store ELSE IF s = "otp" THEN otp.db ELSE session.db

\* the codes the issuer named s can return
IssuerCodes(s) == IF s = "otp" THEN OtpCodes ELSE SessionCodes

\* the code arguments a caller gives the store named s
CodeArgs(s) ==
    IF s = "store" THEN StoreCodes
    ELSE IF s = "otp" THEN WithColon(OtpCodes) ELSE WithColon(SessionCodes)

TotalEntries == dbsize(store, now) + dbsize(otp.db, now) + dbsize(session.db, now)

Call(on, op, code, user, keep_alive) ==
    [on |-> on, op |-> op, code |-> code, user |-> user, keep_alive |-> keep_alive]

\* history: the entry the map holds under the key of (code, user)
Entry(db, code, user) ==
    IF create_key(code, user) \in DOMAIN db THEN Some(db[create_key(code, user)]) ELSE None

\* history: the item put under its key at the current instant
Logged(on, item, keep_alive) ==
    LET key == create_key(item.code, item.user)
        old == origin[on]
        new == [code |-> item.code, user |-> item.user, at |-> now,
                keep_alive |-> keep_alive]
    IN  [origin EXCEPT ![on] =
            [k \in DOMAIN old \cup {key} |-> IF k = key THEN new ELSE old[k]]]

\* history: whatever the map no longer holds is forgotten
Forgotten(on, db) ==
    [origin EXCEPT ![on] = [k \in DOMAIN origin[on] \cap DOMAIN db |-> origin[on][k]]]

----------------------------------------------------------------------------
(* State machine *)

\* the objects as constructed, whichever of them the caller goes on to use
Constructed ==
    /\ store = DataStore_create
    /\ otp = Otp_new
    /\ session = Session_new
    /\ now = 1700000000
    /\ ticks = 0
    /\ call = Call("none", "init", <<>>, <<>>, 0)
    /\ ret = None
    /\ prior = None
    /\ origin = [s \in Stores |-> EmptyMap]

\* a caller that has built one object: a DataStore, an Otp or a Session
Init == made \in {{"store"}, {"otp"}, {"session"}} /\ Constructed

\* the clock moves on by d seconds
Tick ==
    /\ ticks < MaxTicks
    /\ \E d \in ClockSteps : now' = now + d
    /\ ticks' = ticks + 1
    /\ call' = Call("none", "tick", <<>>, <<>>, 0)
    /\ ret' = None
    /\ prior' = None
    /\ UNCHANGED <<made, store, otp, session, origin>>

\* store.put(SessionItem::new(code, user, keep_alive))
DataStore_put(code, user, keep_alive) ==
    LET item == SessionItem_new(code, user, keep_alive, now)
    IN  /\ "store" \in made
        /\ TotalEntries < MaxEntries
        /\ store' = put(store, item)
        /\ call' = Call("store", "put", code, user, keep_alive)
        /\ ret' = Ok(<<>>)
        /\ prior' = Entry(store, code, user)
        /\ origin' = Logged("store", item, keep_alive)
        /\ UNCHANGED <<made, otp, session, now, ticks>>

\* store.get(code, user)
DataStore_get(code, user) ==
    /\ "store" \in made
    /\ store' = get_after(store, code, user, now)
    /\ call' = Call("store", "get", code, user, 0)
    /\ ret' = get(store, code, user, now)
    /\ prior' = Entry(store, code, user)
    /\ origin' = Forgotten("store", store')
    /\ UNCHANGED <<made, otp, session, now, ticks>>

\* store.remove(code, user)
DataStore_remove(code, user) ==
    /\ "store" \in made
    /\ store' = remove_after(store, code, user)
    /\ call' = Call("store", "remove", code, user, 0)
    /\ ret' = Bool(remove_ret(store, code, user, now))
    /\ prior' = Entry(store, code, user)
    /\ origin' = Forgotten("store", store')
    /\ UNCHANGED <<made, otp, session, now, ticks>>

\* store.dbsize()
DataStore_dbsize ==
    /\ "store" \in made
    /\ call' = Call("store", "dbsize", <<>>, <<>>, 0)
    /\ ret' = Usize(dbsize(store, now))
    /\ prior' = None
    /\ UNCHANGED <<made, store, otp, session, now, ticks, origin>>

\* Otp::is_valid, Session::is_valid: the value returned
is_valid(db, code, user, clock) == get(db, code, user, clock).tag = "Some"

\* Otp::remove, Session::remove: the value returned
remove(db, code, user, clock) ==
    IF remove_ret(db, code, user, clock) THEN Some(code) ELSE None

\* Otp::create_user_otp(user), n being the value the generator draws
Otp_create_user_otp(user, n) ==
    LET code == Otp_generate_code(n)
        ss   == SessionItem_new(code, user, otp.keep_alive, now)
    IN  /\ "otp" \in made
        /\ TotalEntries < MaxEntries
        /\ otp' = [otp EXCEPT !.db = put(otp.db, ss)]
        /\ call' = Call("otp", "create", <<>>, user, 0)
        /\ ret' = Ok(code)
        /\ prior' = Entry(otp.db, code, user)
        /\ origin' = Logged("otp", ss, otp.keep_alive)
        /\ UNCHANGED <<made, store, session, now, ticks>>

\* Otp::is_valid(code, user)
Otp_is_valid(code, user) ==
    /\ "otp" \in made
    /\ otp' = [otp EXCEPT !.db = get_after(otp.db, code, user, now)]
    /\ call' = Call("otp", "is_valid", code, user, 0)
    /\ ret' = Bool(is_valid(otp.db, code, user, now))
    /\ prior' = Entry(otp.db, code, user)
    /\ origin' = Forgotten("otp", otp'.db)
    /\ UNCHANGED <<made, store, session, now, ticks>>

\* Otp::remove(code, user)
Otp_remove(code, user) ==
    /\ "otp" \in made
    /\ otp' = [otp EXCEPT !.db = remove_after(otp.db, code, user)]
    /\ call' = Call("otp", "remove", code, user, 0)
    /\ ret' = remove(otp.db, code, user, now)
    /\ prior' = Entry(otp.db, code, user)
    /\ origin' = Forgotten("otp", otp'.db)
    /\ UNCHANGED <<made, store, session, now, ticks>>

\* Otp::dbsize()
Otp_dbsize ==
    /\ "otp" \in made
    /\ call' = Call("otp", "dbsize", <<>>, <<>>, 0)
    /\ ret' = Usize(dbsize(otp.db, now))
    /\ prior' = None
    /\ UNCHANGED <<made, store, otp, session, now, ticks, origin>>

\* Session::create_user_session(user), m and n being the values the generator draws
Session_create_user_session(user, m, n) ==
    LET code == Session_generate_code(m, n)
        ss   == SessionItem_new(code, user, session.keep_alive, now)
    IN  /\ "session" \in made
        /\ TotalEntries < MaxEntries
        /\ session' = [session EXCEPT !.db = put(session.db, ss)]
        /\ call' = Call("session", "create", <<>>, user, 0)
        /\ ret' = Ok(code)
        /\ prior' = Entry(session.db, code, user)
        /\ origin' = Logged("session", ss, session.keep_alive)
        /\ UNCHANGED <<made, store, otp, now, ticks>>

\* faulty variant: the session issuer reads the map of the OTP issuer
Session_is_valid_shared(code, user) ==
    /\ "session" \in made
    /\ call' = Call("session", "is_valid", code, user, 0)
    /\ ret' = Bool(is_valid(otp.db, code, user, now))
    /\ prior' = Entry(otp.db, code, user)
    /\ UNCHANGED <<made, store, otp, session, now, ticks, origin>>

\* Session::is_valid(code, user)
Session_is_valid(code, user) ==
    /\ "session" \in made
    /\ session' = [session EXCEPT !.db = get_after(session.db, code, user, now)]
    /\ call' = Call("session", "is_valid", code, user, 0)
    /\ ret' = Bool(is_valid(session.db, code, user, now))
    /\ prior' = Entry(session.db, code, user)
    /\ origin' = Forgotten("session", session'.db)
    /\ UNCHANGED <<made, store, otp, now, ticks>>

\* Session::remove(code, user)
Session_remove(code, user) ==
    /\ "session" \in made
    /\ session' = [session EXCEPT !.db = remove_after(session.db, code, user)]
    /\ call' = Call("session", "remove", code, user, 0)
    /\ ret' = remove(session.db, code, user, now)
    /\ prior' = Entry(session.db, code, user)
    /\ origin' = Forgotten("session", session'.db)
    /\ UNCHANGED <<made, store, otp, now, ticks>>

\* Session::dbsize()
Session_dbsize ==
    /\ "session" \in made
    /\ call' = Call("session", "dbsize", <<>>, <<>>, 0)
    /\ ret' = Usize(dbsize(session.db, now))
    /\ prior' = None
    /\ UNCHANGED <<made, store, otp, session, now, ticks, origin>>

\* the caller's next call, or the clock's next step
Next ==
    \/ \E c \in StoreCodes, u \in Users, k \in KeepAlives : DataStore_put(c, u, k)
    \/ \E c \in StoreCodes, u \in Users : DataStore_get(c, u)
    \/ \E c \in StoreCodes, u \in Users : DataStore_remove(c, u)
    \/ DataStore_dbsize
    \/ \E u \in Users, n \in OtpDraws : Otp_create_user_otp(u, n)
    \/ \E c \in WithColon(OtpCodes), u \in Users : Otp_is_valid(c, u)
    \/ \E c \in WithColon(OtpCodes), u \in Users : Otp_remove(c, u)
    \/ Otp_dbsize
    \/ \E u \in Users, p \in SessionDraws : Session_create_user_session(u, p[1], p[2])
    \/ \E c \in WithColon(SessionCodes), u \in Users : Session_is_valid(c, u)
    \/ \E c \in WithColon(SessionCodes), u \in Users : Session_remove(c, u)
    \/ Session_dbsize
    \/ Tick

Spec == Init /\ [][Next]_vars

----------------------------------------------------------------------------
(* Claims about the stand-alone store *)

\* C3: get(code, user) returns nothing when the map holds no entry under the
\* key or holds one with expires <= now (so also at the instant now = expires),
\* returns the record (the arguments and the stored expires) when expires > now,
\* and leaves the map as it was, expired entries included.
C3_GetReadsLiveAndKeepsMap ==
    [][\A c \in StoreCodes, u \in Users :
        call' = Call("store", "get", c, u, 0) =>
            LET key == create_key(c, u)
            IN  /\ store' = store
                /\ key \notin DOMAIN store => ret' = None
                /\ (key \in DOMAIN store /\ store[key] <= now) => ret' = None
                /\ (key \in DOMAIN store /\ store[key] > now) =>
                      ret' = Some([code |-> c, user |-> u, expires |-> store[key]])
      ]_vars

\* C3 witness: a get at the very instant an entry put with 60 seconds to live
\* expires: it returns nothing and the entry is still in the map.
C3_Witness ==
    /\ call.on = "store" /\ call.op = "get"
    /\ ret = None
    /\ prior = Some(now)
    /\ create_key(call.code, call.user) \in DOMAIN store
    /\ origin["store"][create_key(call.code, call.user)].keep_alive = 60

\* C4: remove(code, user) deletes the entry under the key, live or expired,
\* and only that entry; it returns true exactly when the entry was there, and
\* the same remove made again right after returns false.
C4_RemoveDeletesAndReports ==
    [][\A c \in StoreCodes, u \in Users :
        call' = Call("store", "remove", c, u, 0) =>
            LET key == create_key(c, u)
            IN  /\ ret' = Bool(key \in DOMAIN store)
                /\ DOMAIN store' = DOMAIN store \ {key}
                /\ \A k \in DOMAIN store' : store'[k] = store[k]
                /\ call = call' => ret' = Bool(FALSE)
      ]_vars

\* C4 witness: a remove of an entry that had already expired returned true.
C4_Witness ==
    /\ call.on = "store" /\ call.op = "remove"
    /\ prior.tag = "Some" /\ prior.val <= now
    /\ ret = Bool(TRUE)
    /\ create_key(call.code, call.user) \notin DOMAIN store

\* C5: dbsize() is the number of entries in the map, expired ones counted;
\* a clock step, a get and an is_valid never change it.
C5_DbsizeCountsPhysicalEntries ==
    [][/\ call'.op \in {"get", "is_valid", "tick"} =>
            \A s \in Stores : Cardinality(DOMAIN Db(s)') = Cardinality(DOMAIN Db(s))
       /\ call'.op = "dbsize" =>
            LET db == Db(call'.on)
            IN  ret' = Usize(Cardinality({k \in DOMAIN db : db[k] > now})
                             + Cardinality({k \in DOMAIN db : db[k] <= now}))
      ]_vars

\* C5 witness: dbsize() returned 2 while both entries had expired.
C5_Witness ==
    /\ call.op = "dbsize"
    /\ ret = Usize(2)
    /\ \A k \in DOMAIN Db(call.on) : Db(call.on)[k] <= now

\* C8: an entry put with lifetime 0 stays in the map and is never returned by
\* get, neither at the instant it was put nor later, as long as it is the
\* entry under its key; dbsize() counts it.
C8_ZeroLifetimeNeverRead ==
    \A k \in DOMAIN origin["store"] :
        LET o == origin["store"][k]
        IN  o.keep_alive = 0 =>
                /\ k \in DOMAIN store
                /\ get(store, o.code, o.user, now) = None
                /\ call = Call("store", "get", o.code, o.user, 0) => ret = None
                /\ (call.on = "store" /\ call.op = "dbsize") =>
                      ret.val >= Cardinality({j \in DOMAIN origin["store"] :
                                                origin["store"][j].keep_alive = 0})

\* C8 witness: a get of an entry put with lifetime 0, at the instant it was
\* put, returned nothing.
C8_Witness ==
    /\ call.on = "store" /\ call.op = "get"
    /\ create_key(call.code, call.user) \in DOMAIN origin["store"]
    /\ origin["store"][create_key(call.code, call.user)].keep_alive = 0
    /\ origin["store"][create_key(call.code, call.user)].at = now
    /\ ret = None

\* C6 (as claimed): a put of a (code, user) pair that differs from every pair
\* the store holds makes dbsize() one larger, and a put of a pair the store
\* holds leaves dbsize() as it was.
C6_PutOfNewPairGrowsByOne ==
    [][\A c \in StoreCodes, u \in Users, ka \in KeepAlives :
        call' = Call("store", "put", c, u, ka) =>
            LET held == {<<origin["store"][k].code, origin["store"][k].user>> :
                            k \in DOMAIN origin["store"]}
            IN  /\ <<c, u>> \notin held =>
                      Cardinality(DOMAIN store') = Cardinality(DOMAIN store) + 1
                /\ <<c, u>> \in held =>
                      Cardinality(DOMAIN store') = Cardinality(DOMAIN store)
      ]_vars

----------------------------------------------------------------------------
(* Claims about the issuers *)

\* the issuer named s holds a record put for exactly (code, user) and not removed since
Held(s, code, user) ==
    \E k \in DOMAIN origin[s] : origin[s][k].code = code /\ origin[s][k].user = user

\* ... and that record's expiration is still ahead
HeldLive(s, code, user) ==
    \E k \in DOMAIN origin[s] :
        /\ origin[s][k].code = code /\ origin[s][k].user = user
        /\ origin[s][k].at + origin[s][k].keep_alive > now

\* C1 (as claimed): is_valid(code, user) returns true if and only if a record
\* was stored for exactly that (code, user), has not been removed since, and
\* expires after the current time; for every argument pair, ':' included.
C1_IsValidIffStoredForThatPair ==
    call.op = "is_valid" => (ret.val <=> HeldLive(call.on, call.code, call.user))

\* C2 (as claimed): right after create_user_otp(user) or create_user_session(user)
\* returned code, is_valid(code, user) is true and is_valid(code, other_user)
\* is false for every other user.
C2_FreshCodeValidForItsUserOnly ==
    call.op = "create" =>
        /\ is_valid(Db(call.on), ret.val, call.user, now)
        /\ \A u \in Users \ {call.user} : ~is_valid(Db(call.on), ret.val, u, now)

\* C7 (as claimed): remove(code, user) on a live credential returns the code and
\* is_valid(code, user) is false afterwards, also after the step that follows;
\* remove(code, user) on a pair never issued or already removed returns
\* nothing and changes no state.
C7_RemoveRevokesOrDoesNothing ==
    [][/\ \A s \in Issuers : \A c \in CodeArgs(s), u \in Users :
            call' = Call(s, "remove", c, u, 0) =>
                /\ HeldLive(s, c, u) =>
                      (ret' = Some(c) /\ ~is_valid(Db(s)', c, u, now'))
                /\ ~Held(s, c, u) => (ret' = None /\ Db(s)' = Db(s))
       /\ (call.op = "remove" /\ ret = Some(call.code)) =>
            ~is_valid(Db(call.on)', call.code, call.user, now')
      ]_vars

\* C9: every entry of an issuer's store expires at the instant of its issuance
\* plus 300 (Otp) or 14000 (Session) seconds, and, while it is the entry under
\* its key, is_valid(code, user) is true at every instant before that one,
\* from the issuance on, and false from that instant on.
C9_ValidForExactlyTheLifetime ==
    \A s \in Issuers : \A k \in DOMAIN Db(s) :
        LET o == origin[s][k]
            expires_at == o.at + (IF s = "otp" THEN 300 ELSE 14000)
        IN  /\ Db(s)[k] = expires_at
            /\ o.at <= now
            /\ is_valid(Db(s), o.code, o.user, now) <=> now < expires_at
            /\ call = Call(s, "is_valid", o.code, o.user, 0) =>
                  ret = Bool(now < expires_at)

\* C9 witness: a session issued 13999 seconds ago is found valid, one second
\* before it expires.
C9_Witness ==
    /\ call.on = "session" /\ call.op = "is_valid"
    /\ create_key(call.code, call.user) \in DOMAIN session.db
    /\ origin["session"][create_key(call.code, call.user)].at + 13999 = now
    /\ ret = Bool(TRUE)

\* C10 (as claimed): once is_valid(code, user) is false for an issued
\* credential, because its entry has expired or because the call just made
\* removed it, no step makes is_valid(code, user) true again.
C10_NeverValidAgain ==
    [][\A s \in made \cap Issuers : \A c \in IssuerCodes(s), u \in Users :
        (\/ /\ create_key(c, u) \in DOMAIN Db(s)
            /\ Db(s)[create_key(c, u)] <= now
         \/ /\ call = Call(s, "remove", c, u, 0)
            /\ ret = Some(c))
        => ~is_valid(Db(s)', c, u, now')
      ]_vars

\* C10 (amended): is_valid(code, user) goes from false to true only by a
\* create call for that user that returns that code; is_valid, remove, clock
\* steps and the issuance of any other pair never make it true.
C10_ValidAgainOnlyByReissue ==
    [][\A s \in made \cap Issuers : \A c \in IssuerCodes(s), u \in Users :
        (~is_valid(Db(s), c, u, now) /\ is_valid(Db(s)', c, u, now')) =>
            (call' = Call(s, "create", <<>>, u, 0) /\ ret' = Ok(c))
      ]_vars

\* C10 witness: a create call drew the code of an entry of the same user that
\* had expired, and the pair is valid again.
C10_Witness ==
    /\ call.op = "create"
    /\ prior.tag = "Some" /\ prior.val <= now
    /\ is_valid(Db(call.on), ret.val, call.user, now)

----------------------------------------------------------------------------
(* Code generation and key construction on their own *)

\* fastrand::u64(100_000..1_000_000): the values formatted here, the ends of
\* the range, the changes of leading digit and some values in between
OtpSample ==
    (OTP_RANGE_START .. OTP_RANGE_START + 30)
        \cup (OTP_RANGE_END - 30 .. OTP_RANGE_END - 1)
        \cup {109999, 110000, 123456, 199999, 200000, 500000, 899999, 900000}

\* fastrand::u64(1_000_000_000_000..10_000_000_000_000): the values formatted
\* here, as limbs: 10^12, 16^10 - 1, 16^10, 5 * 10^12 and 10^13 - 1
SessionSample ==
    {<<10 ^ 6, 0>>, <<1099511, 627775>>, <<1099511, 627776>>,
     <<5 * 10 ^ 6, 0>>, <<10 ^ 7 - 1, Limb - 1>>}

\* the strings over alphabet of length n at most
StringsUpTo(alphabet, n) == UNION {[1 .. k -> alphabet] : k \in 0 .. n}

\* user arguments of create_key: any string over 'a', ':' and '0'
KeyUsers == StringsUpTo({"a", ":", "0"}, MaxUserLen)

\* code arguments of create_key: codes the two issuers generate
KeyCodes ==
    {Otp_generate_code(n) : n \in {OTP_RANGE_START, OTP_RANGE_START + 1}}
        \cup {Session_generate_code(m, n) :
                m \in {<<10 ^ 6, 0>>}, n \in {<<10 ^ 6, 0>>, <<10 ^ 7 - 1, Limb - 1>>}}
        \cup {Session_generate_code(<<10 ^ 7 - 1, Limb - 1>>, <<10 ^ 7 - 1, Limb - 1>>)}

\* otp.generate_code(), n being the value the generator draws
Otp_generate(n) ==
    /\ "otp" \in made
    /\ call' = Call("otp", "generate_code", <<>>, <<>>, 0)
    /\ ret' = String(Otp_generate_code(n))
    /\ prior' = None
    /\ UNCHANGED <<made, store, otp, session, now, ticks, origin>>

\* session.generate_code(), m and n being the values the generator draws
Session_generate(m, n) ==
    /\ "session" \in made
    /\ call' = Call("session", "generate_code", <<>>, <<>>, 0)
    /\ ret' = String(Session_generate_code(m, n))
    /\ prior' = None
    /\ UNCHANGED <<made, store, otp, session, now, ticks, origin>>

\* store.create_key(code, user)
DataStore_create_key(code, user) ==
    /\ "store" \in made
    /\ call' = Call("store", "create_key", code, user, 0)
    /\ ret' = String(create_key(code, user))
    /\ prior' = None
    /\ UNCHANGED <<made, store, otp, session, now, ticks, origin>>

\* a caller that has built all three objects
InitPure == made = Stores /\ Constructed

NextPure ==
    \/ \E n \in OtpSample : Otp_generate(n)
    \/ \E m \in SessionSample, n \in SessionSample : Session_generate(m, n)
    \/ \E c \in KeyCodes, u \in KeyUsers : DataStore_create_key(c, u)

SpecPure == InitPure /\ [][NextPure]_vars

\* C11: over the codes the issuers generate, and any user, ':' included,
\* create_key is injective: the key made for one (code, user) is the key of no
\* other pair.
C11_KeyInjectiveOverIssuerCodes ==
    call.op = "create_key" =>
        \A c \in KeyCodes, u \in KeyUsers :
            create_key(c, u) = ret.val => (c = call.code /\ u = call.user)

\* C11 witness: the key of a session code and a user that holds two ':'.
C11_Witness ==
    /\ call.op = "create_key"
    /\ Len(call.code) > 6
    /\ call.user = <<":", "a", ":">>
    /\ ret = String(call.code \o <<":", ":", "a", ":">>)

\* C12 (as claimed): every code of Session::generate_code has length exactly
\* 22, and so every code create_user_session returns is longer than 20.
C12_SessionCodeLength22 ==
    (call.on = "session" /\ call.op \in {"generate_code", "create"}) =>
        (Len(ret.val) = 22 /\ Len(ret.val) > 20)

\* the number a string of decimal digits stands for
RECURSIVE DecValue(_)
DecValue(str) ==
    IF str = <<>> THEN 0
    ELSE 10 * DecValue(SubSeq(str, 1, Len(str) - 1))
         + (CHOOSE d \in 0 .. 9 : DecDigits[d + 1] = str[Len(str)])

\* C13: every code of Otp::generate_code is six ASCII digits, the first not
\* '0', and reads as a number from 100000 to 999999.
C13_OtpCodeSixDigits ==
    (call.on = "otp" /\ call.op = "generate_code") =>
        /\ Len(ret.val) = 6
        /\ \A i \in 1 .. Len(ret.val) :
              ret.val[i] \in {"0", "1", "2", "3", "4", "5", "6", "7", "8", "9"}
        /\ ret.val[1] # "0"
        /\ DecValue(ret.val) \in 100000 .. 999999

\* C13 witness: the largest draw, 999999, gives "999999".
C13_Witness ==
    /\ call.on = "otp" /\ call.op = "generate_code"
    /\ ret = String(<<"9", "9", "9", "9", "9", "9">>)

----------------------------------------------------------------------------
(* Validation, uniqueness and separation of the issuers *)

\* C14 (as claimed): a credential is single-use: once is_valid(code, user)
\* has returned true, is_valid(code, user) is false, although the credential
\* has not expired and remove was not called.
C14_SingleUse ==
    (call.on \in Issuers /\ call.op = "is_valid" /\ ret = Bool(TRUE)) =>
        ~is_valid(Db(call.on), call.code, call.user, now)

\* C14 (amended): validation uses nothing up: an is_valid call leaves the
\* issuer's map as it was and returns what the same call returns when
\* repeated at once; is_valid(code, user) goes from true to false only by a
\* clock step or a remove call.
C14_ValidUntilExpiredOrRemoved ==
    [][\A s \in made \cap Issuers :
        /\ (call'.on = s /\ call'.op = "is_valid") =>
              /\ Db(s)' = Db(s)
              /\ ret' = Bool(is_valid(Db(s)', call'.code, call'.user, now'))
        /\ call'.op \notin {"tick", "remove"} =>
              \A c \in CodeArgs(s), u \in Users :
                  is_valid(Db(s), c, u, now) => is_valid(Db(s)', c, u, now')
      ]_vars

\* C14 witness: is_valid has returned true after the clock moved, and the
\* credential is still in the map and still valid.
C14_Witness ==
    /\ call.on \in Issuers /\ call.op = "is_valid" /\ ret = Bool(TRUE)
    /\ ticks > 0
    /\ prior = Entry(Db(call.on), call.code, call.user)
    /\ is_valid(Db(call.on), call.code, call.user, now)

\* C15 (as claimed): an issuer never holds two live records with the same
\* code bound to different users.
C15_LiveCodesUnique ==
    \A s \in Issuers : \A k1 \in DOMAIN Db(s), k2 \in DOMAIN Db(s) :
        (/\ Db(s)[k1] > now /\ Db(s)[k2] > now
         /\ origin[s][k1].code = origin[s][k2].code)
        => origin[s][k1].user = origin[s][k2].user

\* a caller that has built one OTP issuer and one session issuer
InitBoth == made = Issuers /\ Constructed

\* the user of both issuers
BothUsers == {<<"b">>}

\* the value the OTP generator draws, and the two the session generator draws
BothOtpDraw == OTP_RANGE_START
BothSessionDraw == <<10 ^ 6, 0>>

\* code arguments given to either issuer: a code of each of them
BothCodes ==
    {Otp_generate_code(BothOtpDraw),
     Session_generate_code(BothSessionDraw, BothSessionDraw)}

NextBoth ==
    \/ \E u \in BothUsers : Otp_create_user_otp(u, BothOtpDraw)
    \/ \E c \in BothCodes, u \in BothUsers : Otp_is_valid(c, u)
    \/ \E c \in BothCodes, u \in BothUsers : Otp_remove(c, u)
    \/ Otp_dbsize
    \/ \E u \in BothUsers :
          Session_create_user_session(u, BothSessionDraw, BothSessionDraw)
    \/ \E c \in BothCodes, u \in BothUsers : Session_is_valid(c, u)
    \/ \E c \in BothCodes, u \in BothUsers : Session_remove(c, u)
    \/ Session_dbsize
    \/ Tick

SpecBoth == InitBoth /\ [][NextBoth]_vars

\* the issuer that is not s
Other(s) == IF s = "otp" THEN "session" ELSE "otp"

\* C16: a call on one issuer leaves the other issuer's map, dbsize() and
\* is_valid results as they were, and a (code, user) is valid in an issuer
\* only if that issuer issued it: a pair only the other issuer issued is not.
C16_IssuersSeparate ==
    [][\A s \in Issuers :
        LET t == Other(s)
        IN  /\ call'.on = s =>
                /\ Db(t)' = Db(t)
                /\ dbsize(Db(t)', now') = dbsize(Db(t), now)
                /\ \A c \in BothCodes, u \in BothUsers :
                      is_valid(Db(t)', c, u, now') = is_valid(Db(t), c, u, now)
            /\ \A c \in BothCodes, u \in BothUsers :
                /\ is_valid(Db(t), c, u, now)' => Held(t, c, u)'
                /\ (call' = Call(t, "is_valid", c, u, 0) /\ ~Held(t, c, u)')
                      => ret' = Bool(FALSE)
      ]_vars

\* C16 witness: the OTP issuer holds a live code for the user, the session
\* issuer holds a session of the same user, and the session issuer has just
\* found the OTP code invalid for that user.
C16_Witness ==
    /\ call.on = "session" /\ call.op = "is_valid"
    /\ is_valid(otp.db, call.code, call.user, now)
    /\ dbsize(session.db, now) = 1
    /\ ret = Bool(FALSE)

----------------------------------------------------------------------------
(* Overwriting, independence of entries, validity and presence *)

\* C17: put(item) returns Ok and leaves exactly the entry of item's key
\* changed: it holds item.expires, whether or not the key was there and also
\* when the old expiration was later; a get for the pair that follows returns
\* the record with that code, user and expiration if it has not expired.
C17_PutLastWriteWins ==
    [][/\ \A c \in StoreCodes, u \in Users, ka \in KeepAlives :
            call' = Call("store", "put", c, u, ka) =>
                LET key  == create_key(c, u)
                    item == [code |-> c, user |-> u, expires |-> now + ka]
                IN  /\ ret' = Ok(<<>>)
                    /\ DOMAIN store' = DOMAIN store \cup {key}
                    /\ store'[key] = item.expires
                    /\ \A k \in DOMAIN store \ {key} : store'[k] = store[k]
                    /\ item.expires > now' => get(store', c, u, now') = Some(item)
       /\ (call.op = "put" /\ call' = Call("store", "get", call.code, call.user, 0)
           /\ now + call.keep_alive > now') =>
            ret' = Some([code |-> call.code, user |-> call.user,
                         expires |-> now + call.keep_alive])
      ]_vars

\* C17 witness: a put has replaced a later expiration by an earlier one.
C17_Witness ==
    /\ call.on = "store" /\ call.op = "put" /\ ret = Ok(<<>>)
    /\ prior.tag = "Some"
    /\ prior.val > store[create_key(call.code, call.user)]

C19_ValidAtMostPresent ==
    \A s \in made \cap Issuers :
        Cardinality({p \in CodeArgs(s) \X Users : is_valid(Db(s), p[1], p[2], now)})
            <= dbsize(Db(s), now)

============================================================================
